---- MODULE Spec2Model ----
(***************************************************************************)
(* Model of ai_python_copilot.py: the Anscombe quartet regression script.  *)
(*                                                                         *)
(* The script loads a table of (dataset, x, y) rows, walks the distinct    *)
(* dataset labels in order of first appearance, calls stats.linregress on  *)
(* the rows of each label, appends one row of statistics per label to      *)
(* `results`, then prints the table and the elapsed time and plots.        *)
(*                                                                         *)
(* Numbers are exact rationals <<num, den>> in lowest terms with den > 0.  *)
(* The non-finite doubles are <<0, 0>> (NaN) and <<1, 0>>, <<-1, 0>>       *)
(* (+inf, -inf), so that 0.0/0.0 is a value and not an error, as it is for *)
(* numpy float64.  Rounding of double arithmetic is not modelled.          *)
(***************************************************************************)
EXTENDS Integers, Sequences, FiniteSets, TLC

VARIABLES
    anscombe,   \* the loaded table: a sequence of rows [dataset, x, y]
    names,      \* anscombe['dataset'].unique(), fixed when the loop starts
    k,          \* number of loop iterations completed
    results,    \* the list `results`
    pc,         \* position of the script
    stdout,     \* what the script has printed
    xs, ys,     \* arguments of a direct call of linregress
    outcome     \* what that call produced

vars == <<anscombe, names, k, results, pc, stdout, xs, ys, outcome>>

(***************************************************************************)
(* Bounds of the model.                                                    *)
(***************************************************************************)
MaxRows == 4    \* rows of a generated table
MaxLen == 3     \* length of a generated argument of linregress
MaxVal == 2     \* largest generated coordinate

(***************************************************************************)
(* float64 values as exact rationals.                                      *)
(***************************************************************************)
Abs(n) == IF n < 0 THEN -n ELSE n

Sgn(n) == IF n < 0 THEN -1 ELSE IF n > 0 THEN 1 ELSE 0

RECURSIVE GCD(_, _)
GCD(a, b) == IF b = 0 THEN a ELSE GCD(b, a % b)

NaN == <<0, 0>>

IsFinite(p) == p[2] # 0

IsNaN(p) == p = NaN

\* n/d as a float64 value: lowest terms, positive denominator; x/0 is
\* nan for x = 0 and a signed infinity otherwise.
Rat(n, d) ==
    IF d = 0 THEN <<Sgn(n), 0>>
    ELSE LET g == GCD(Abs(n), Abs(d))
             s == IF d < 0 THEN -1 ELSE 1
         IN  <<s * (n \div g), s * (d \div g)>>

Num(n) == <<n, 1>>

Zero == Num(0)

One == Num(1)

Neg(p) == <<-p[1], p[2]>>

Add(p, q) ==
    IF IsNaN(p) \/ IsNaN(q) THEN NaN
    ELSE IF ~IsFinite(p) /\ ~IsFinite(q) THEN (IF p = q THEN p ELSE NaN)
    ELSE IF ~IsFinite(p) THEN p
    ELSE IF ~IsFinite(q) THEN q
    ELSE LET g == GCD(p[2], q[2])
         IN  Rat(p[1] * (q[2] \div g) + q[1] * (p[2] \div g),
                 (p[2] \div g) * q[2])

Sub(p, q) == Add(p, Neg(q))

Mul(p, q) ==
    IF IsNaN(p) \/ IsNaN(q) THEN NaN
    ELSE IF ~IsFinite(p) \/ ~IsFinite(q)
         THEN (IF p[1] = 0 \/ q[1] = 0 THEN NaN ELSE <<Sgn(p[1]) * Sgn(q[1]), 0>>)
    ELSE LET g1 == GCD(Abs(p[1]), q[2])
             g2 == GCD(Abs(q[1]), p[2])
         IN  Rat((p[1] \div g1) * (q[1] \div g2),
                 (p[2] \div g2) * (q[2] \div g1))

Div(p, q) ==
    IF IsNaN(p) \/ IsNaN(q) THEN NaN
    ELSE IF ~IsFinite(q) THEN (IF IsFinite(p) THEN Zero ELSE NaN)
    ELSE IF ~IsFinite(p) THEN (IF q[1] < 0 THEN Neg(p) ELSE p)
    ELSE IF q[1] = 0 THEN <<Sgn(p[1]), 0>>
    ELSE Mul(p, Rat(q[2], q[1]))

\* a/b < c/d for b, d > 0, by continued fractions (no products formed).
RECURSIVE FracLess(_, _, _, _)
FracLess(a, b, c, d) ==
    LET fa == a \div b
        fc == c \div d
        ra == a % b
        rc == c % d
    IN  IF fa # fc THEN fa < fc
        ELSE IF rc = 0 THEN FALSE
        ELSE IF ra = 0 THEN TRUE
        ELSE FracLess(d, rc, b, ra)

\* p < q as float64 comparison: false when either side is nan.
Less(p, q) ==
    IF IsNaN(p) \/ IsNaN(q) THEN FALSE
    ELSE IF ~IsFinite(p) THEN p[1] < 0 /\ q # p
    ELSE IF ~IsFinite(q) THEN q[1] > 0
    ELSE FracLess(p[1], p[2], q[1], q[2])

Leq(p, q) == ~IsNaN(p) /\ ~IsNaN(q) /\ ~Less(q, p)

(***************************************************************************)
(* numpy reductions over a sequence of values.                             *)
(***************************************************************************)
RECURSIVE SumSeq(_)
SumSeq(s) == IF s = <<>> THEN Zero ELSE Add(Head(s), SumSeq(Tail(s)))

\* Mutant of Mean: divides by n - 1.
MutMean(s) == Div(SumSeq(s), Num(Len(s) - 1))

Mean(s) == Div(SumSeq(s), Num(Len(s)))

AllSame(s) == \A i, j \in 1..Len(s) : s[i] = s[j]

(***************************************************************************)
(* scipy.stats.linregress(x, y), as called on line 30.  The p-value and    *)
(* the standard error it also returns are never read by the script.        *)
(***************************************************************************)
Centered(s) == [i \in 1..Len(s) |-> Sub(s[i], Mean(s))]

\* Mutant of Cov: the mean of the products of the raw values, the means not
\* subtracted.
MutCov(a, b) == Div(SumSeq([i \in 1..Len(a) |-> Mul(a[i], b[i])]), Num(Len(a)))

\* One entry of np.cov(a, b, bias=1): the mean of the products of the
\* deviations from the means.
Cov(a, b) ==
    LET ca == Centered(a)
        cb == Centered(b)
    IN  Div(SumSeq([i \in 1..Len(a) |-> Mul(ca[i], cb[i])]), Num(Len(a)))

ValueError(msg) == [kind |-> "ValueError", msg |-> msg]

\* Mutant of RValue: the zero denominator is not guarded.
MutRValue(ssxm, ssxym, ssym) ==
    LET sq == Mul(Div(ssxym, ssxm), Div(ssxym, ssym))
    IN  [sgn |-> Sgn(ssxym[1]), sq |-> IF Less(One, sq) THEN One ELSE sq]

\* r = ssxym / sqrt(ssxm * ssym), held as its sign and its square; 0.0 when
\* the denominator would be 0; clipped into [-1, 1].
RValue(ssxm, ssxym, ssym) ==
    IF ssxm = Zero \/ ssym = Zero THEN [sgn |-> 0, sq |-> Zero]
    ELSE LET sq == Mul(Div(ssxym, ssxm), Div(ssxym, ssym))
         IN  [sgn |-> Sgn(ssxym[1]), sq |-> IF Less(One, sq) THEN One ELSE sq]

\* Mutant of CovShapesMatch: a longer y is accepted and its tail ignored.
MutCovShapesMatch(x, y) == Len(x) <= Len(y)

\* The shapes np.cov accepts: both arguments of one length.
CovShapesMatch(x, y) == Len(x) = Len(y)

\* The guard of "Cannot calculate a linear regression if all x values are
\* identical": np.amax(x) == np.amin(x) and len(x) > 1.
AllXIdentical(x) == AllSame(x) /\ Len(x) > 1

linregress(x, y) ==
    IF Len(x) = 0 \/ Len(y) = 0 THEN ValueError("empty")
    ELSE IF AllXIdentical(x) THEN ValueError("identical x")
    ELSE IF ~CovShapesMatch(x, y) THEN ValueError("shape mismatch")
    ELSE LET xmean == Mean(x)
             ymean == Mean(y)
             ssxm == Cov(x, x)
             ssxym == Cov(x, y)
             ssym == Cov(y, y)
             slope == Div(ssxym, ssxm)
         IN  [kind |-> "ok",
              slope |-> slope,
              intercept |-> Sub(ymean, Mul(slope, xmean)),
              rvalue |-> RValue(ssxm, ssxym, ssym)]

\* r_value**2 on line 36.
Square(r) == r.sq

(***************************************************************************)
(* Direct calls of linregress on generated arguments.                      *)
(***************************************************************************)
RECURSIVE SeqsUpTo(_, _)
SeqsUpTo(S, n) ==
    IF n = 0 THEN {<<>>}
    ELSE LET shorter == SeqsUpTo(S, n - 1)
         IN  shorter \cup {Append(s, v) : s \in shorter, v \in S}

XVals == {Num(v) : v \in 1..MaxVal}

YVals == {Num(v) : v \in 0..MaxVal}

\* xs = [1,2,3], ys = [2,4,6]
PerfectFitExample == <<<<Num(1), Num(2), Num(3)>>, <<Num(2), Num(4), Num(6)>>>>

\* xs = [1,1,1], ys = [1,2,3]
DegenerateExample == <<<<Num(1), Num(1), Num(1)>>, <<Num(1), Num(2), Num(3)>>>>

\* xs of length 3, ys of length 4
MismatchExample == <<<<Num(1), Num(2), Num(3)>>, <<Num(1), Num(2), Num(3), Num(4)>>>>

Arguments ==
    (SeqsUpTo(XVals, MaxLen) \X SeqsUpTo(YVals, MaxLen))
        \cup {PerfectFitExample, DegenerateExample, MismatchExample}

NoCall == [kind |-> "none"]

InitCall ==
    /\ \E a \in Arguments : xs = a[1] /\ ys = a[2]
    /\ outcome = NoCall
    /\ anscombe = <<>>
    /\ names = <<>>
    /\ k = 0
    /\ results = <<>>
    /\ pc = "call"
    /\ stdout = <<>>

Call ==
    /\ pc = "call"
    /\ outcome = NoCall
    /\ outcome' = linregress(xs, ys)
    /\ pc' = "returned"
    /\ UNCHANGED <<anscombe, names, k, results, stdout, xs, ys>>

NextCall == Call

SpecCall == InitCall /\ [][NextCall]_vars

(***************************************************************************)
(* The script.                                                             *)
(***************************************************************************)
Sample(l, x, y) == [dataset |-> l, x |-> x, y |-> y]

RECURSIVE Zip(_, _, _)
Zip(l, x, y) ==
    IF x = <<>> THEN <<>>
    ELSE <<Sample(l, Num(Head(x)), Rat(Head(y), 100))>> \o Zip(l, Tail(x), Tail(y))

\* sns.load_dataset("anscombe"): the bundled table, groups I to IV of eleven
\* samples each, y given to two decimals.
AnscombeQuartet ==
    LET x123 == <<10, 8, 13, 9, 11, 14, 6, 4, 12, 7, 5>>
        x4 == <<8, 8, 8, 8, 8, 8, 8, 19, 8, 8, 8>>
    IN  Zip("I", x123, <<804, 695, 758, 881, 833, 996, 724, 426, 1084, 482, 568>>)
        \o Zip("II", x123, <<914, 814, 874, 877, 926, 810, 613, 310, 913, 726, 474>>)
        \o Zip("III", x123, <<746, 677, 1274, 711, 781, 884, 608, 539, 815, 642, 573>>)
        \o Zip("IV", x4, <<658, 576, 771, 884, 847, 704, 525, 1250, 556, 791, 689>>)

Labels == {"I", "II", "III"}

SamplePool == {<<Num(1), Num(1)>>, <<Num(2), Num(2)>>, <<Num(2), Num(3)>>}

RowPool(L) == {Sample(l, s[1], s[2]) : l \in L, s \in SamplePool}

\* The tables the script is run on: the bundled one, every table of up to
\* MaxRows rows of the pool over two labels, and every shorter one over three.
Tables ==
    SeqsUpTo(RowPool({"I", "II"}), MaxRows)
        \cup SeqsUpTo(RowPool(Labels), MaxRows - 1)
        \cup {AnscombeQuartet}

\* Mutant of Unique: the label column as it is, repeats included.
MutUnique(t) == [i \in 1..Len(t) |-> t[i].dataset]

\* anscombe['dataset'].unique(): the labels in order of first appearance.
RECURSIVE Unique(_)
Unique(t) ==
    IF t = <<>> THEN <<>>
    ELSE <<Head(t).dataset>>
             \o Unique(SelectSeq(Tail(t), LAMBDA r : r.dataset # Head(t).dataset))

\* Mutant of Subset: the first row of the label is lost.
MutSubset(t, name) ==
    LET own == SelectSeq(t, LAMBDA r : r.dataset = name)
    IN  IF own = <<>> THEN own ELSE Tail(own)

\* anscombe[anscombe['dataset'] == dataset_name]: the rows of one label, in
\* table order.
RECURSIVE Subset(_, _)
Subset(t, name) ==
    IF t = <<>> THEN <<>>
    ELSE IF Head(t).dataset = name
         THEN <<Head(t)>> \o Subset(Tail(t), name)
         ELSE Subset(Tail(t), name)

Column(t, c) == [i \in 1..Len(t) |-> IF c = "x" THEN t[i].x ELSE t[i].y]

\* Mutant of Row: intercept and slope stored under each other's key.
MutRow(name, reg) ==
    [Dataset |-> name,
     Intercept |-> reg.slope,
     Slope |-> reg.intercept,
     R_squared |-> Square(reg.rvalue)]

\* The dictionary appended on lines 32-37.
Row(name, reg) ==
    [Dataset |-> name,
     Intercept |-> reg.intercept,
     Slope |-> reg.slope,
     R_squared |-> Square(reg.rvalue)]

\* Mutant of AppendRow: one dictionary reused for every row, so that all rows
\* show the last one.
MutAppendRow(res, row) == [i \in 1..(Len(res) + 1) |-> row]

\* results.append(...)
AppendRow(res, row) == Append(res, row)

\* The regression of the group the loop is at.
Regression(t, name) ==
    linregress(Column(Subset(t, name), "x"), Column(Subset(t, name), "y"))

\* Where the script is.  Each action below is enabled exactly when its
\* guard holds: past the guard it only assigns.
AtStart == pc = "start"

InLoop == pc = "loop" /\ k < Len(names)

LoopEnded == pc = "loop" /\ k = Len(names)

AtPlot == pc = "plot"

Init ==
    /\ anscombe \in Tables
    /\ names = <<>>
    /\ k = 0
    /\ results = <<>>
    /\ pc = "start"
    /\ stdout = <<>>
    /\ xs = <<>>
    /\ ys = <<>>
    /\ outcome = NoCall

\* Lines 21-26: the empty list, the timer, and the labels the loop walks.
StartLoop ==
    /\ AtStart
    /\ names' = Unique(anscombe)
    /\ results' = <<>>
    /\ k' = 0
    /\ pc' = "loop"
    /\ UNCHANGED <<anscombe, stdout, xs, ys, outcome>>

\* Mutant of LoopBody: the exception is caught and the group skipped.
MutLoopBody ==
    /\ InLoop
    /\ LET reg == Regression(anscombe, names[k + 1])
       IN  IF reg.kind = "ok"
           THEN results' = AppendRow(results, Row(names[k + 1], reg))
           ELSE results' = results
    /\ k' = k + 1
    /\ pc' = "loop"
    /\ UNCHANGED <<anscombe, names, stdout, xs, ys, outcome>>

\* Lines 26-37: one iteration.  An exception of linregress is not caught:
\* it ends the script.
LoopBody ==
    /\ InLoop
    /\ LET reg == Regression(anscombe, names[k + 1])
       IN  IF reg.kind = "ok"
           THEN /\ results' = AppendRow(results, Row(names[k + 1], reg))
                /\ k' = k + 1
                /\ pc' = "loop"
           ELSE /\ pc' = "raised"
                /\ UNCHANGED <<results, k>>
    /\ UNCHANGED <<anscombe, names, stdout, xs, ys, outcome>>

\* Lines 41-47: the loop is over; the table and the elapsed time are printed.
Display ==
    /\ LoopEnded
    /\ stdout' = <<"Linear Regression Results for Anscombe Quartet:", results,
                   "Script execution time">>
    /\ pc' = "plot"
    /\ UNCHANGED <<anscombe, names, k, results, xs, ys, outcome>>

\* Lines 51-64: the plots.
Plot ==
    /\ AtPlot
    /\ pc' = "done"
    /\ UNCHANGED <<anscombe, names, k, results, stdout, xs, ys, outcome>>

Next == StartLoop \/ LoopBody \/ Display \/ Plot

Spec == Init /\ [][Next]_vars

(***************************************************************************)
(* Properties of a direct call (SpecCall).                                 *)
(***************************************************************************)
\* The preconditions of the regression: equal lengths, n >= 2, xs not all
\* identical.
Valid(x, y) == Len(x) = Len(y) /\ Len(x) >= 2 /\ ~AllSame(x)

Returned == pc = "returned"

\* C2: for every valid (xs, ys), also with all ys identical, the call returns
\* a result with finite slope and intercept and 0 <= r_squared <= 1.
C2_FiniteAndBounded ==
    (Returned /\ Valid(xs, ys)) =>
        /\ outcome.kind = "ok"
        /\ IsFinite(outcome.slope)
        /\ IsFinite(outcome.intercept)
        /\ Leq(Zero, Square(outcome.rvalue))
        /\ Leq(Square(outcome.rvalue), One)

C2_Witness ==
    /\ Returned
    /\ Valid(xs, ys)
    /\ AllSame(ys)
    /\ outcome.kind = "ok"
    /\ Square(outcome.rvalue) = Zero

\* C3: whenever xs does not hold two distinct values (every input with
\* n < 2 included), the call fails and returns no result.
C3_NoDistinctXFails ==
    (Returned /\ AllSame(xs)) => outcome.kind = "ValueError"

\* C4: whenever xs and ys differ in length, the call fails and returns no
\* result.
C4_LengthMismatchFails ==
    (Returned /\ Len(xs) # Len(ys)) => outcome.kind = "ValueError"

C4_Witness ==
    /\ Returned
    /\ <<xs, ys>> = MismatchExample
    /\ outcome = ValueError("shape mismatch")

\* The sums of the closed form, over the raw coordinates.
Dot(a, b) == SumSeq([i \in 1..Len(a) |-> Mul(a[i], b[i])])

Sxy(x, y) == Sub(Mul(Num(Len(x)), Dot(x, y)), Mul(SumSeq(x), SumSeq(y)))

\* The sum of squared vertical residuals of the line y = s*x + c.
SSE(x, y, s, c) ==
    SumSeq([i \in 1..Len(x) |->
        LET e == Sub(y[i], Add(Mul(s, x[i]), c)) IN Mul(e, e)])

Grid == {Num(n) : n \in -1..1}

Nudges == {Rat(n, 4) : n \in -1..1}

\* The lines the fitted line is compared with: a grid, and the lines close
\* to the fitted one.
Candidates(s, c) ==
    (Grid \X Grid) \cup {<<Add(s, d), Add(c, e)>> : d \in Nudges, e \in Nudges}

\* C5: for every valid input the slope is Sxy/Sxx, the intercept is
\* mean_y - slope * mean_x, and every other line has a strictly larger sum
\* of squared vertical residuals.
C5_LeastSquares ==
    (Returned /\ Valid(xs, ys)) =>
        /\ outcome.kind = "ok"
        /\ outcome.slope = Div(Sxy(xs, ys), Sxy(xs, xs))
        /\ outcome.intercept =
               Sub(Div(SumSeq(ys), Num(Len(ys))),
                   Mul(outcome.slope, Div(SumSeq(xs), Num(Len(xs)))))
        /\ LET fitted == SSE(xs, ys, outcome.slope, outcome.intercept)
           IN  \A line \in Candidates(outcome.slope, outcome.intercept) :
                   line # <<outcome.slope, outcome.intercept>> =>
                       Less(fitted, SSE(xs, ys, line[1], line[2]))

\* A valid input of three points that is not a perfect fit, fitted by a line
\* with a fractional slope: its residual sum is positive.
C5_Witness ==
    /\ Returned
    /\ Valid(xs, ys)
    /\ Len(xs) = 3
    /\ outcome.kind = "ok"
    /\ outcome.slope[2] # 1
    /\ Less(Zero, SSE(xs, ys, outcome.slope, outcome.intercept))

\* The line through the first point and the first point with another x.
LineSlope(x, y) ==
    LET j == CHOOSE i \in 1..Len(x) : x[i] # x[1] /\ \A h \in 1..(i - 1) : x[h] = x[1]
    IN  Div(Sub(y[j], y[1]), Sub(x[j], x[1]))

LineIntercept(x, y) == Sub(y[1], Mul(LineSlope(x, y), x[1]))

\* All points lie on one line y = a*x + b with a # 0.
OnSlopedLine(x, y) ==
    /\ Valid(x, y)
    /\ LineSlope(x, y) # Zero
    /\ \A i \in 1..Len(x) :
           y[i] = Add(Mul(LineSlope(x, y), x[i]), LineIntercept(x, y))

\* C6: when all points lie on one non-horizontal line y = a*x + b, the call
\* returns slope a, intercept b and r_squared 1.
C6_PerfectFit ==
    (Returned /\ OnSlopedLine(xs, ys)) =>
        /\ outcome.kind = "ok"
        /\ outcome.slope = LineSlope(xs, ys)
        /\ outcome.intercept = LineIntercept(xs, ys)
        /\ Square(outcome.rvalue) = One

C6_Witness ==
    /\ Returned
    /\ <<xs, ys>> = PerfectFitExample
    /\ OnSlopedLine(xs, ys)
    /\ outcome.kind = "ok"
    /\ outcome.slope = Num(2)
    /\ outcome.intercept = Zero
    /\ Square(outcome.rvalue) = One

(***************************************************************************)
(* Properties of the script (Spec).                                        *)
(***************************************************************************)
\* The samples carrying one label, read off the table directly.
Own(t, l) == SelectSeq(t, LAMBDA r : r.dataset = l)

OwnX(t, l) == [i \in 1..Len(Own(t, l)) |-> Own(t, l)[i].x]

OwnY(t, l) == [i \in 1..Len(Own(t, l)) |-> Own(t, l)[i].y]

LabelsOf(t) == {t[i].dataset : i \in 1..Len(t)}

FirstIndex(t, l) == CHOOSE i \in 1..Len(t) : t[i].dataset = l /\ \A h \in 1..(i - 1) : t[h].dataset # l

\* The statistics of a group by the closed form over its raw coordinates.
ExpectedSlope(x, y) == Div(Sxy(x, y), Sxy(x, x))

ExpectedIntercept(x, y) ==
    Sub(Div(SumSeq(y), Num(Len(y))),
        Mul(ExpectedSlope(x, y), Div(SumSeq(x), Num(Len(x)))))

ExpectedRSquared(x, y) ==
    IF Sxy(x, x) = Zero \/ Sxy(y, y) = Zero THEN Zero
    ELSE Mul(Div(Sxy(x, y), Sxy(x, x)), Div(Sxy(x, y), Sxy(y, y)))

\* A row holds the statistics of exactly the samples carrying its label.
RowOfOwnSamples(t, row) ==
    LET x == OwnX(t, row.Dataset)
        y == OwnY(t, row.Dataset)
    IN  /\ row.Slope = ExpectedSlope(x, y)
        /\ row.Intercept = ExpectedIntercept(x, y)
        /\ row.R_squared = ExpectedRSquared(x, y)

LoopOver == pc \in {"plot", "done"}

Within(v, c, tol) == Leq(Sub(v, c), tol) /\ Leq(Sub(c, v), tol)

\* C1: on the Anscombe quartet every one of the four rows has slope within
\* 1e-2 of 0.500, intercept within 1e-2 of 3.00 and r_squared within 1e-2 of
\* 0.67.
C1_AnscombeRowsAgree ==
    (anscombe = AnscombeQuartet /\ LoopOver) =>
        /\ Len(results) = 4
        /\ {results[i].Dataset : i \in 1..4} = {"I", "II", "III", "IV"}
        /\ \A i \in 1..4 :
               /\ Within(results[i].Slope, Rat(1, 2), Rat(1, 100))
               /\ Within(results[i].Intercept, Num(3), Rat(1, 100))
               /\ Within(results[i].R_squared, Rat(67, 100), Rat(1, 100))

\* The four rows are there and are not equal: they agree within the
\* tolerance only.
C1_Witness ==
    /\ anscombe = AnscombeQuartet
    /\ pc = "done"
    /\ Len(results) = 4
    /\ results[1].Slope # results[3].Slope
    /\ results[2].R_squared # results[4].R_squared

\* Two groups of the table hold the same samples in the same order.
SameSamples(t, l, m) == OwnX(t, l) = OwnX(t, m) /\ OwnY(t, l) = OwnY(t, m)

SameStatistics(r, q) ==
    r.Slope = q.Slope /\ r.Intercept = q.Intercept /\ r.R_squared = q.R_squared

AllGroupsValid(t) == \A l \in LabelsOf(t) : Valid(OwnX(t, l), OwnY(t, l))

\* One row per label, none twice, none missing, in order of first appearance,
\* each from the samples carrying the label.
TableComplete ==
    /\ {results[i].Dataset : i \in 1..Len(results)} = LabelsOf(anscombe)
    /\ Len(results) = Cardinality(LabelsOf(anscombe))
    /\ \A i, j \in 1..Len(results) :
           i < j => FirstIndex(anscombe, results[i].Dataset)
                        < FirstIndex(anscombe, results[j].Dataset)
    /\ \A i \in 1..Len(results) : RowOfOwnSamples(anscombe, results[i])

\* The steps the script has left at most: a variant of its run.
Remaining ==
    CASE pc = "start" -> Cardinality(LabelsOf(anscombe)) + 3
      [] pc = "loop" -> (Len(names) - k) + 2
      [] pc = "plot" -> 1
      [] OTHER -> 0

\* C9: when every group is valid the loop terminates (no group raises, some
\* action's guard holds until the script is done, and every step lowers the
\* variant), and the table then holds exactly one row per label of the
\* dataset, in order of first appearance, each computed from exactly the
\* samples carrying that label.
C9_OneRowPerLabel ==
    /\ [](AllGroupsValid(anscombe) =>
             /\ pc # "raised"
             /\ Remaining >= 0
             /\ (pc # "done" => (AtStart \/ InLoop \/ LoopEnded \/ AtPlot)))
    /\ [][Remaining' < Remaining]_vars
    /\ []((LoopOver /\ AllGroupsValid(anscombe)) => TableComplete)

\* Two valid groups, the one that comes first in the table being the later
\* label of the alphabet.
C9_Witness ==
    /\ pc = "done"
    /\ AllGroupsValid(anscombe)
    /\ TableComplete
    /\ Len(results) = 2
    /\ results[1].Dataset = "II"
    /\ results[2].Dataset = "I"

\* The regression of the group the loop is at raises.
GroupFails == InLoop /\ Regression(anscombe, names[k + 1]).kind # "ok"

\* C10: a failing regression ends the script there: no row for that group,
\* no later group processed, nothing printed; a failing group is never
\* skipped and never given a row.
C10_FailureAborts ==
    /\ [][GroupFails => (pc' = "raised" /\ results' = results /\ stdout' = stdout)]_vars
    /\ [][pc # "raised"]_vars
    /\ [](pc = "raised" =>
             /\ stdout = <<>>
             /\ Len(results) = k
             /\ k < Len(names)
             /\ \A i \in 1..Len(results) : results[i].Dataset # names[k + 1])
    /\ [](\A i \in 1..Len(results) :
             Regression(anscombe, results[i].Dataset).kind = "ok")

\* The first of two groups failed: no row at all, and the second group, a
\* valid one, was never processed.
C10_Witness ==
    /\ pc = "raised"
    /\ Len(names) = 2
    /\ k = 0
    /\ results = <<>>
    /\ stdout = <<>>
    /\ Regression(anscombe, names[2]).kind = "ok"

====
